---- MODULE Spec2Model ----
(***************************************************************************)
(* Model of drf_extra_fields/parameterized.py: the parameter field that    *)
(* maps a discriminator ("parameter") to a specific serializer and back,   *)
(* the resolver that derives the maps from the URL configuration, and the  *)
(* validator attached to the field.                                        *)
(*                                                                         *)
(* Python values are modelled as follows.  Serializer instances, serializer*)
(* classes, model classes and parameters are strings; None is the string   *)
(* "None".  A dict is the sequence of its <<key, value>> items in insertion*)
(* order (keys unique), so that iteration order is part of the model.      *)
(***************************************************************************)
EXTENDS Integers, Sequences, FiniteSets, TLC

None == "None"

\* ----------------------------------------------------------------- bounds
\* The most items given explicitly to the constructor, over both maps
\* (specific_serializers and specific_serializers_by_type).
MaxExplicit == 1

\* ------------------------------------------------------------ value domains
\* Serializer instances that can be registered or supplied by a view: two
\* instances of one serializer class and one instance of another.
Schemas == {"sA1", "sA2", "sB1"}

\* The parameters a caller may ask for.
Params == {"people", "articles"}

\* Model classes (the types of serialized instances).
Models == {"Person", "Article"}

\* type(serializer): the class of a serializer instance.  "new1", "new2" are
\* the plain serializers.Serializer instances made by get_attribute.
TypeOf(s) ==
    CASE s \in {"sA1", "sA2"} -> "SerA"
      [] s = "sB1" -> "SerB"
      [] s \in {"new1", "new2"} -> "Serializer"
      [] OTHER -> "NoneType"

\* model._meta.verbose_name
verbose_name(model) ==
    CASE model = "Person" -> "person"
      [] model = "Article" -> "article"
      [] OTHER -> model

\* ------------------------------------------------------------- Python dicts
Keys(d) == {d[i][1] : i \in DOMAIN d}

Has(d, k) == \E i \in DOMAIN d : d[i][1] = k

\* d[k]; the callers below check Has(d, k) first or model the KeyError.
Get(d, k) == d[CHOOSE i \in DOMAIN d : d[i][1] = k][2]

\* d[k] = v: an existing key keeps its position, a new key goes last.
Put(d, k, v) ==
    IF Has(d, k)
    THEN [i \in DOMAIN d |-> IF d[i][1] = k THEN <<k, v>> ELSE d[i]]
    ELSE Append(d, <<k, v>>)

\* d.setdefault(k, v)
SetDefault(d, k, v) == IF Has(d, k) THEN d ELSE Append(d, <<k, v>>)

RECURSIVE Update(_, _)
\* d.update(e): the items of e in order, each as d[k] = v.
Update(d, e) ==
    IF e = <<>> THEN d
    ELSE Update(Put(d, Head(e)[1], Head(e)[2]), Tail(e))

\* All dicts with at most n items, keys from K, values from V.
RECURSIVE DictsUpTo(_, _, _)
DictsUpTo(n, K, V) ==
    IF n = 0 THEN {<<>>}
    ELSE LET shorter == DictsUpTo(n - 1, K, V)
         IN shorter \cup
            {Append(d, <<k, v>>) : d \in shorter, k \in K, v \in V}

WellFormedDict(d) == \A i, j \in DOMAIN d : d[i][1] = d[j][1] => i = j

\* ----------------------------------------------------------- the inflectors
\* inflection.pluralize and inflection.parameterize on the names that occur.
pluralize(w) ==
    CASE w = "person" -> "people"
      [] w = "article" -> "articles"
      [] w = "type" -> "types"
      [] OTHER -> w

parameterize(w) ==
    CASE w = "Example Person" -> "example-person"
      [] OTHER -> w

\* inflection.singularize, another callable a caller may list.
singularize(w) ==
    CASE w = "people" -> "person"
      [] w = "articles" -> "article"
      [] w = "types" -> "type"
      [] OTHER -> w

ApplyInflector(f, w) ==
    CASE f = "pluralize" -> pluralize(w)
      [] f = "parameterize" -> parameterize(w)
      [] f = "singularize" -> singularize(w)
      [] OTHER -> w

\* The module's default: [inflection.pluralize, inflection.parameterize]
default_inflectors == <<"pluralize", "parameterize">>

RECURSIVE Inflect(_, _)
\* for inflector in inflectors: parameter = inflector(parameter)
Inflect(fs, w) ==
    IF fs = <<>> THEN w ELSE Inflect(Tail(fs), ApplyInflector(Head(fs), w))

\* ------------------------------------------------------------ URL patterns
\* A pattern's regex is the sequence of its pieces: "^", "/", "$", "?" and
\* runs of other characters.  url_parameter_re = \^([^/?]+)/\$ is matched at
\* the start of the regex (re.match): a literal "^", the longest run of
\* pieces other than "/" and "?", then "/" and "$".  The run cannot be
\* shortened to make the rest match, since the piece after a shorter run is
\* not "/".
RECURSIVE RunLength(_, _)
RunLength(p, i) ==
    IF i > Len(p) \/ p[i] \in {"/", "?"} THEN 0 ELSE 1 + RunLength(p, i + 1)

RECURSIVE Join(_)
Join(ps) == IF ps = <<>> THEN "" ELSE Head(ps) \o Join(Tail(ps))

\* url_re.match(pattern.regex.pattern), then group(1); None when no match.
url_match_group(p) ==
    IF Len(p) >= 1 /\ p[1] = "^"
    THEN LET n == RunLength(p, 2)
         IN IF n >= 1 /\ Len(p) >= n + 3 /\ p[n + 2] = "/" /\ p[n + 3] = "$"
            THEN Join(SubSeq(p, 2, n + 1))
            ELSE None
    ELSE None

\* --------------------------------------------------------------- viewsets
\* The class found at pattern.callback.cls.  serializer is what
\* get_serializer() returns, meta_parameter and meta_model its Meta.parameter
\* and Meta.model, queryset the model of get_queryset() or "AssertionError"
\* when get_queryset() raises it.
NoClass ==
    [has_get_serializer |-> FALSE, serializer |-> None,
     meta_parameter |-> None, meta_model |-> None,
     has_get_queryset |-> FALSE, queryset |-> None]

ViewSet(serializer, meta_parameter, meta_model, queryset) ==
    [has_get_serializer |-> TRUE, serializer |-> serializer,
     meta_parameter |-> meta_parameter, meta_model |-> meta_model,
     has_get_queryset |-> queryset # None, queryset |-> queryset]

\* A route entry: a URL pattern (has a callback) or a resolver (has
\* url_patterns).
URLPattern(regex, cls) ==
    [regex |-> regex, cls |-> cls, has_url_patterns |-> FALSE,
     url_patterns |-> <<>>]

URLResolver(regex, url_patterns) ==
    [regex |-> regex, cls |-> NoClass, has_url_patterns |-> TRUE,
     url_patterns |-> url_patterns]

\* The instance argument of get_resource_items: a models.Model instance of
\* some model type, or any other object, with its class's capabilities.
ModelInstance(model) == [is_model |-> TRUE, type |-> model, view |-> NoClass]
ViewInstance(cls) == [is_model |-> FALSE, type |-> None, view |-> cls]

\* The pattern argument: a pattern with its regex, or None.
Given(regex) == [given |-> TRUE, regex |-> regex]
NoPattern == [given |-> FALSE, regex |-> <<>>]

\* get_resource_items(instance, pattern, url_re, inflectors) with the
\* module's url_parameter_re.  The result is <<parameter, model, serializer>>.
get_resource_items(instance, pattern, inflectors) ==
    LET cls == instance.view
        is_view == ~instance.is_model /\ cls.has_get_serializer
        serializer == IF is_view THEN cls.serializer ELSE None
        meta_model == IF serializer = None THEN None ELSE cls.meta_model
        model == IF instance.is_model THEN instance.type
                 ELSE IF is_view /\ cls.has_get_queryset
                         /\ cls.queryset # "AssertionError"
                 THEN cls.queryset
                 ELSE meta_model
        explicit == IF serializer = None THEN None ELSE cls.meta_parameter
        matched == IF explicit = None /\ pattern.given
                   THEN url_match_group(pattern.regex) ELSE None
        uninflected == IF explicit = None /\ ~pattern.given /\ model # None
                       THEN verbose_name(model) ELSE matched
        parameter == IF explicit = None /\ uninflected # None
                     THEN Inflect(inflectors, uninflected)
                     ELSE explicit
    IN <<parameter, model, serializer>>

Maps(ss, bt) ==
    [specific_serializers |-> ss, specific_serializers_by_type |-> bt]

\* The part of lookup_serializer_parameters before the recursion: the maps
\* of the pattern's own callback.
OwnMaps(pattern, inflectors) ==
    IF pattern.cls.has_get_serializer
    THEN LET items == get_resource_items(
                          ViewInstance(pattern.cls), Given(pattern.regex),
                          inflectors)
             parameter == items[1]
             model == items[2]
             serializer == items[3]
         IN IF serializer # None
            THEN Maps(IF parameter # None
                      THEN SetDefault(<<>>, parameter, serializer) ELSE <<>>,
                      IF model # None
                      THEN SetDefault(<<>>, model, serializer) ELSE <<>>)
            ELSE Maps(<<>>, <<>>)
    ELSE Maps(<<>>, <<>>)

RECURSIVE lookup_serializer_parameters(_, _)
RECURSIVE RecursePatterns(_, _, _)
RECURSIVE RecursePatterns_recursed_first(_, _, _)
\* The loop with the update the other way round: the maps of the recursed
\* pattern written over the maps found so far.
RecursePatterns_recursed_first(acc, url_patterns, inflectors) ==
    IF url_patterns = <<>> THEN acc
    ELSE LET recursed ==
                 lookup_serializer_parameters(Head(url_patterns), inflectors)
             merged ==
                 Maps(Update(acc.specific_serializers,
                             recursed.specific_serializers),
                      Update(acc.specific_serializers_by_type,
                             recursed.specific_serializers_by_type))
         IN RecursePatterns_recursed_first(
                merged, Tail(url_patterns), inflectors)

\* The loop over pattern.url_patterns: the maps found so far are written over
\* the maps of the recursed pattern, and the result becomes the maps so far.
RecursePatterns(acc, url_patterns, inflectors) ==
    IF url_patterns = <<>> THEN acc
    ELSE LET recursed ==
                 lookup_serializer_parameters(Head(url_patterns), inflectors)
             merged ==
                 Maps(Update(recursed.specific_serializers,
                             acc.specific_serializers),
                      Update(recursed.specific_serializers_by_type,
                             acc.specific_serializers_by_type))
         IN RecursePatterns(merged, Tail(url_patterns), inflectors)

lookup_serializer_parameters(pattern, inflectors) ==
    IF pattern.has_url_patterns
    THEN RecursePatterns(
             OwnMaps(pattern, inflectors), pattern.url_patterns, inflectors)
    ELSE OwnMaps(pattern, inflectors)

RECURSIVE InverseIndex(_, _)
\* {type(serializer): parameter for parameter, serializer in d.items()}
InverseIndex(acc, items) ==
    IF items = <<>> THEN acc
    ELSE InverseIndex(
             Put(acc, TypeOf(Head(items)[2]), Head(items)[1]), Tail(items))

\* merge_serializer_parameters with the updates the wrong way round: the
\* found maps written over the explicit ones.
merge_found_over_explicit(conf, inflectors, explicit, explicit_by_type) ==
    LET found == lookup_serializer_parameters(conf, inflectors)
        ss == Update(explicit, found.specific_serializers)
        bt == Update(explicit_by_type, found.specific_serializers_by_type)
    IN [specific_serializers |-> ss,
        specific_serializers_by_type |-> bt,
        parameters |-> InverseIndex(<<>>, ss)]

\* SerializerParameterField.merge_serializer_parameters
merge_serializer_parameters(conf, inflectors, explicit, explicit_by_type) ==
    LET found == lookup_serializer_parameters(conf, inflectors)
        ss == Update(found.specific_serializers, explicit)
        bt == Update(found.specific_serializers_by_type, explicit_by_type)
    IN [specific_serializers |-> ss,
        specific_serializers_by_type |-> bt,
        parameters |-> InverseIndex(<<>>, ss)]

\* ------------------------------------------------------------------ state
\* The serializers a parameter field can be bound to: generic
\* (ParameterizedGenericSerializer) ones and a plain parent serializer.
Generic == {"g1", "g2"}
Plain == {"plain"}

\* What get_view_serializer() of the first bound generic serializer returns:
\* nothing, or the serializer instance the view made.
ViewSerializers == {None, "sA2", "sB1"}

\* fields.empty
empty == "empty"

\* Serialized instances: a ReturnDict carries the serializer that made it,
\* any other instance has a type; attr is the value found under the field's
\* source, "Missing" when the instance has none.
Missing == "Missing"
ReturnDict(serializer, attr) ==
    [kind |-> "ReturnDict", serializer |-> serializer, model |-> None,
     attr |-> attr]
Object(model, attr) ==
    [kind |-> "object", serializer |-> None, model |-> model, attr |-> attr]
\* Every kind of instance without the attribute, and instances that carry a
\* parameter of their own.
Instances ==
    {ReturnDict(s, Missing) : s \in Schemas}
    \cup {Object(m, Missing) : m \in Models}
    \cup {Object("Person", p) : p \in Params}
    \cup {ReturnDict("sB1", "people")}
NoInstance ==
    [kind |-> None, serializer |-> None, model |-> None, attr |-> Missing]

\* The URL configuration of the specification: a router with one viewset
\* registered under "people", whose queryset is of model Person.
PeoplePattern ==
    URLPattern(<<"^", "people", "/", "$">>,
               ViewSet("sA1", None, "Person", "Person"))
PeopleConf == URLResolver(<<"^", "/">>, <<PeoplePattern>>)
UrlConfs == {PeopleConf}

\* ------------------------------------------------------------ route trees
\* The most route entries (patterns and resolvers) of a URL configuration.
MaxEntries == 4

\* What a route entry can be: an include (no callback), two viewsets routed
\* under the same name with the same model, as the "people" of router and
\* override_router are, and a detail route whose serializer names the
\* parameter in its Meta.
RouteKinds ==
    {<<(<<"^">>), NoClass>>,
     <<(<<"^", "people", "/", "$">>), ViewSet("sA1", None, "Person", "Person")>>,
     <<(<<"^", "people", "/", "$">>), ViewSet("sB1", None, "Person", "Person")>>,
     <<(<<"^", "people", "/", "pk", "/", "$">>),
       ViewSet("sA2", "people", "Article", None)>>}

\* An entry with a callback class and nested entries of its own.
RouteEntry(kind, url_patterns) ==
    [regex |-> kind[1], cls |-> kind[2],
     has_url_patterns |-> url_patterns # <<>>, url_patterns |-> url_patterns]

RECURSIVE EntryCount(_)
RECURSIVE EntriesCount(_)
EntryCount(pattern) == 1 + EntriesCount(pattern.url_patterns)
EntriesCount(url_patterns) ==
    IF url_patterns = <<>> THEN 0
    ELSE EntryCount(Head(url_patterns)) + EntriesCount(Tail(url_patterns))

RECURSIVE RouteTrees(_)
RECURSIVE RouteLists(_)
\* Every route tree of at most n entries, of any shape and depth.
RouteTrees(n) ==
    IF n = 0 THEN {}
    ELSE {RouteEntry(k, ps) : k \in RouteKinds, ps \in RouteLists(n - 1)}
\* Every list of route trees of at most n entries together.
RouteLists(n) ==
    IF n = 0 THEN {<<>>}
    ELSE {<<>>} \cup
         UNION {{<<t>> \o ps : ps \in RouteLists(n - EntryCount(t))} :
                    t \in RouteTrees(n)}

\* The explicit maps a constructor call may give.
ExplicitMaps ==
    {e \in DictsUpTo(MaxExplicit, Params, Schemas)
           \X DictsUpTo(MaxExplicit, Models, Schemas) :
        /\ WellFormedDict(e[1])
        /\ WellFormedDict(e[2])
        /\ Len(e[1]) + Len(e[2]) <= MaxExplicit}

\* The (default, required) pairs rest_framework's Field.__init__ accepts: it
\* rejects required together with a default.
AttributeConfigs ==
    {<<empty, TRUE>>, <<empty, FALSE>>, <<"people", FALSE>>,
     <<"articles", FALSE>>}

NoMaps ==
    [specific_serializers |-> <<>>, specific_serializers_by_type |-> <<>>,
     parameters |-> <<>>]
CachedNames ==
    {"specific_serializers", "specific_serializers_by_type", "parameters"}

VARIABLES
    urlconf,                        \* self.urlconf, as the resolver it names
    inflectors,                     \* self.inflectors
    _specific_serializers,          \* self._specific_serializers
    _specific_serializers_by_type,  \* self._specific_serializers_by_type
    skip,                           \* self.skip
    default,                        \* self.default
    required,                       \* self.required
    parameter_serializers,          \* self.parameter_serializers
    clone_meta,     \* the serializers whose clone_meta['parameter_field'] is self
    child,          \* the child slot of each generic serializer
    cache,          \* the cached properties in vars(self), and their values
    merge_calls,    \* how often merge_serializer_parameters has run
    last,           \* the last call: its input, where it ended and its result
    resource,       \* a call of get_resource_items: its arguments and result
    passes,         \* the to_representation passes over one generic serializer
    unhandled       \* a call of an UnhandledSerializer: its input and result

vars ==
    <<urlconf, inflectors, _specific_serializers,
      _specific_serializers_by_type, skip, default, required,
      parameter_serializers, clone_meta, child, cache, merge_calls, last,
      resource, passes, unhandled>>

\* What the operations of the parameter field leave alone.
others == <<resource, passes, unhandled>>

config ==
    <<urlconf, inflectors, _specific_serializers,
      _specific_serializers_by_type, skip, default, required>>

\* Nothing called yet, no pass begun.
NoResource ==
    [instance |-> ViewInstance(NoClass), pattern |-> NoPattern,
     inflectors |-> <<>>, called |-> FALSE, items |-> <<None, None, None>>]
PassIds == {"a", "b"}
IdlePass ==
    [pc |-> "idle", on |-> None, instance |-> NoInstance, view |-> None,
     outcome |-> "none", raised |-> None, nested |-> FALSE, used |-> None,
     overlapped |-> FALSE]
NoPasses == [p \in PassIds |-> IdlePass]
NoUnhandled ==
    [op |-> "none", fields |-> <<>>, source |-> "*",
     input |-> [flat |-> <<>>, nested |-> <<>>], called |-> FALSE,
     result |-> [outcome |-> "none"]]

Call(op, parameter, instance, view, outcome, ret, exit) ==
    [op |-> op, parameter |-> parameter, instance |-> instance,
     view |-> view, outcome |-> outcome, ret |-> ret, exit |-> exit]

NoCall == Call("none", None, NoInstance, None, "none", None, "none")

\* SerializerParameterField.__init__ with skip among skips and
\* (default, required) among configs.
InitField(skips, configs) ==
    /\ urlconf \in UrlConfs
    /\ inflectors = default_inflectors
    /\ \E e \in ExplicitMaps :
           /\ _specific_serializers = e[1]
           /\ _specific_serializers_by_type = e[2]
    /\ skip \in skips
    /\ \E c \in configs :
           /\ default = c[1]
           /\ required = c[2]
    /\ parameter_serializers = <<>>
    /\ clone_meta = {}
    /\ child = [g \in Generic |-> None]
    /\ cache = [names |-> {}, maps |-> NoMaps]
    /\ merge_calls = 0
    /\ last = NoCall
    /\ resource = NoResource
    /\ passes = NoPasses
    /\ unhandled = NoUnhandled

\* The field as declared with the keyword defaults: skip=True, no default,
\* required.
Init == InitField({TRUE}, {<<empty, TRUE>>})

\* ------------------------------------------------------- cached properties
\* A read without the vars(self).update of the property functions: only the
\* property read is cached.
AccessCache_own_name(c, name, conf, infl, explicit, explicit_by_type) ==
    IF name \in c.names THEN c
    ELSE [names |-> c.names \cup {name},
          maps |-> merge_serializer_parameters(
                       conf, infl, explicit, explicit_by_type)]

\* A read of one of the three cached properties: when the name is not in
\* vars(self) the property function runs merge_serializer_parameters, puts
\* all three maps into vars(self), and cached_property stores its own.
AccessCache(c, name, conf, infl, explicit, explicit_by_type) ==
    IF name \in c.names THEN c
    ELSE [names |-> CachedNames \cup {name},
          maps |-> merge_serializer_parameters(
                       conf, infl, explicit, explicit_by_type)]

AccessRuns(c, name) == IF name \in c.names THEN 0 ELSE 1

\* The field's cache after a read of property name.
Read(name) ==
    AccessCache(cache, name, urlconf, inflectors, _specific_serializers,
                _specific_serializers_by_type)

\* ------------------------------------------------------------ the lookups
ValidationErrors == {"unknown", "serializer", "mismatch", "instance"}

\* The push that stops after the first bound serializer.
PushChild_first(ps, ch, s) ==
    [g \in DOMAIN ch |-> IF ps # <<>> /\ ps[1] = g THEN s ELSE ch[g]]

\* for parameter_serializer in self.parameter_serializers:
\*     parameter_serializer.child = child
PushChild(ps, ch, s) ==
    [g \in DOMAIN ch |->
        IF \E i \in DOMAIN ps : ps[i] = g THEN s ELSE ch[g]]

\* How a call ends: outcome is "return" or the exception, ret the value
\* returned, ch the child slots it leaves, exit the line it ends at.
Result(outcome, ret, ch, exit) ==
    [outcome |-> outcome, ret |-> ret, child |-> ch, exit |-> exit]

\* lookup_serializer without the comparison of the view serializer's
\* parameter with the requested one.
lookup_serializer_no_mismatch(m, ps, ch, view, parameter) ==
    IF ~Has(m.specific_serializers, parameter)
    THEN Result("unknown", None, ch, "L250")
    ELSE IF ps = <<>>
    THEN Result("IndexError", None, ch, "L255")
    ELSE IF view # None
    THEN IF ~Has(m.parameters, TypeOf(view))
         THEN Result("serializer", None, ch, "L259")
         ELSE Result("return", view, PushChild(ps, ch, view), "L267")
    ELSE LET s == Get(m.specific_serializers, parameter)
         IN Result("return", s, PushChild(ps, ch, s), "L267")

\* lookup_serializer with the view's serializer verified before the
\* parameter is looked up.
lookup_serializer_view_first(m, ps, ch, view, parameter) ==
    IF ps = <<>>
    THEN Result("IndexError", None, ch, "L255")
    ELSE IF view # None /\ ~Has(m.parameters, TypeOf(view))
    THEN Result("serializer", None, ch, "L259")
    ELSE IF view # None /\ parameter # Get(m.parameters, TypeOf(view))
    THEN Result("mismatch", None, ch, "L261")
    ELSE IF ~Has(m.specific_serializers, parameter)
    THEN Result("unknown", None, ch, "L250")
    ELSE LET s == IF view # None THEN view
                  ELSE Get(m.specific_serializers, parameter)
         IN Result("return", s, PushChild(ps, ch, s), "L267")

\* lookup_serializer with the view's serializer pushed as soon as it is
\* fetched, before it is verified.
lookup_serializer_push_first(m, ps, ch, view, parameter) ==
    IF ~Has(m.specific_serializers, parameter)
    THEN Result("unknown", None, ch, "L250")
    ELSE IF ps = <<>>
    THEN Result("IndexError", None, ch, "L255")
    ELSE IF view # None
    THEN IF ~Has(m.parameters, TypeOf(view))
         THEN Result("serializer", None, PushChild(ps, ch, view), "L259")
         ELSE IF parameter # Get(m.parameters, TypeOf(view))
         THEN Result("mismatch", None, PushChild(ps, ch, view), "L261")
         ELSE Result("return", view, PushChild(ps, ch, view), "L267")
    ELSE LET s == Get(m.specific_serializers, parameter)
         IN Result("return", s, PushChild(ps, ch, s), "L267")

\* SerializerParameterField.lookup_serializer(parameter).  m are the merged
\* maps, ps the bound generic serializers, ch their child slots and view the
\* result of ps[0].get_view_serializer().
lookup_serializer(m, ps, ch, view, parameter) ==
    IF ~Has(m.specific_serializers, parameter)
    THEN Result("unknown", None, ch, "L250")
    ELSE IF ps = <<>>
    THEN Result("IndexError", None, ch, "L255")
    ELSE IF view # None
    THEN IF ~Has(m.parameters, TypeOf(view))
         THEN Result("serializer", None, ch, "L259")
         ELSE IF parameter # Get(m.parameters, TypeOf(view))
         THEN Result("mismatch", None, ch, "L261")
         ELSE Result("return", view, PushChild(ps, ch, view), "L267")
    ELSE LET s == Get(m.specific_serializers, parameter)
         IN Result("return", s, PushChild(ps, ch, s), "L267")

\* lookup_parameter with the view's serializer verified the way
\* lookup_serializer verifies it.
lookup_parameter_verified(m, ps, ch, view, instance) ==
    LET is_wrapper == instance.kind = "ReturnDict"
        inferred == IF is_wrapper THEN instance.serializer
                    ELSE Get(m.specific_serializers_by_type, instance.model)
        parameter == Get(m.parameters, TypeOf(inferred))
    IN IF is_wrapper /\ ~Has(m.parameters, TypeOf(instance.serializer))
       THEN Result("serializer", None, ch, "L277")
       ELSE IF ~is_wrapper
               /\ ~Has(m.specific_serializers_by_type, instance.model)
       THEN Result("instance", None, ch, "L282")
       ELSE IF ~Has(m.parameters, TypeOf(inferred))
       THEN Result("KeyError", None, ch, "L284")
       ELSE IF ps = <<>>
       THEN Result("IndexError", None, ch, "L289")
       ELSE IF view # None /\ ~Has(m.parameters, TypeOf(view))
       THEN Result("serializer", None, ch, "L289")
       ELSE IF view # None /\ parameter # Get(m.parameters, TypeOf(view))
       THEN Result("mismatch", None, ch, "L289")
       ELSE Result("return", parameter,
                   PushChild(ps, ch, IF view # None THEN view ELSE inferred),
                   "L295")

\* SerializerParameterField.lookup_parameter(instance)
lookup_parameter(m, ps, ch, view, instance) ==
    LET is_wrapper == instance.kind = "ReturnDict"
        inferred == IF is_wrapper THEN instance.serializer
                    ELSE Get(m.specific_serializers_by_type, instance.model)
    IN IF is_wrapper /\ ~Has(m.parameters, TypeOf(instance.serializer))
       THEN Result("serializer", None, ch, "L277")
       ELSE IF ~is_wrapper
               /\ ~Has(m.specific_serializers_by_type, instance.model)
       THEN Result("instance", None, ch, "L282")
       ELSE IF ~Has(m.parameters, TypeOf(inferred))
       THEN Result("KeyError", None, ch, "L284")
       ELSE IF ps = <<>>
       THEN Result("IndexError", None, ch, "L289")
       ELSE Result("return", Get(m.parameters, TypeOf(inferred)),
                   PushChild(ps, ch, IF view # None THEN view ELSE inferred),
                   "L295")

\* The empty serializer made inside the loop: one instance per bound
\* generic serializer.
BindEmpty_each(ps, ch) ==
    [g \in DOMAIN ch |->
        IF \E i \in DOMAIN ps : ps[i] = g
        THEN IF ps[1] = g THEN "new1" ELSE "new2"
        ELSE ch[g]]

\* child = serializers.Serializer(instance=instance), pushed to every bound
\* generic serializer (get_attribute, the optional field without a default).
BindEmpty(ps, ch) == PushChild(ps, ch, "new1")

\* get_attribute with the default tried before lookup_parameter.
get_attribute_default_first(m, ps, ch, view, instance, dflt, reqd) ==
    IF instance.attr # Missing
    THEN LET ls == lookup_serializer(m, ps, ch, view, instance.attr)
         IN IF ls.outcome = "return"
            THEN Result("return", instance.attr, ls.child, "L342")
            ELSE Result(ls.outcome, None, ls.child, "L341")
    ELSE IF dflt # empty
    THEN LET ls == lookup_serializer(m, ps, ch, view, dflt)
         IN IF ls.outcome = "return"
            THEN Result("return", dflt, ls.child, "L318")
            ELSE Result(ls.outcome, None, ls.child, "L317")
    ELSE LET lp == lookup_parameter(m, ps, ch, view, instance)
         IN IF lp.outcome \notin ValidationErrors
            THEN Result(lp.outcome, lp.ret, lp.child, "L310")
            ELSE IF ~reqd
            THEN Result("SkipField", None, BindEmpty(ps, ch), "L323")
            ELSE Result(IF instance.kind = "ReturnDict"
                        THEN "KeyError:missing" ELSE "AttributeError:missing",
                        None, ch, "L337")

\* SerializerParameterField.get_attribute(instance).  The plain extraction
\* fields.get_attribute(instance, self.source_attrs) gives instance.attr or
\* raises KeyError (a mapping) or AttributeError (an object); get_default()
\* gives the configured default.
get_attribute(m, ps, ch, view, instance, dflt, reqd) ==
    IF instance.attr # Missing
    THEN LET ls == lookup_serializer(m, ps, ch, view, instance.attr)
         IN IF ls.outcome = "return"
            THEN Result("return", instance.attr, ls.child, "L342")
            ELSE Result(ls.outcome, None, ls.child, "L341")
    ELSE LET lp == lookup_parameter(m, ps, ch, view, instance)
         IN IF lp.outcome \notin ValidationErrors
            THEN Result(lp.outcome, lp.ret, lp.child, "L310")
            ELSE IF dflt # empty
            THEN LET ls == lookup_serializer(m, ps, ch, view, dflt)
                 IN IF ls.outcome = "return"
                    THEN Result("return", dflt, ls.child, "L318")
                    ELSE Result(ls.outcome, None, ls.child, "L317")
            ELSE IF ~reqd
            THEN Result("SkipField", None, BindEmpty(ps, ch), "L323")
            ELSE Result(IF instance.kind = "ReturnDict"
                        THEN "KeyError:missing" ELSE "AttributeError:missing",
                        None, ch, "L337")

\* The validator that decides to skip before it looks the value up.
validator_call_skip_first(m, ps, ch, view, value, skp) ==
    IF skp
    THEN Result("SkipField", None, ch, "L121")
    ELSE LET ls == lookup_serializer(m, ps, ch, view, value)
         IN IF ls.outcome # "return"
            THEN Result(ls.outcome, None, ls.child, "L119")
            ELSE Result("return", value, ls.child, "L123")

\* SerializerParameterValidator.__call__(value)
validator_call(m, ps, ch, view, value, skp) ==
    LET ls == lookup_serializer(m, ps, ch, view, value)
    IN IF ls.outcome # "return"
       THEN Result(ls.outcome, None, ls.child, "L119")
       ELSE IF skp
       THEN Result("SkipField", None, ls.child, "L121")
       ELSE Result("return", value, ls.child, "L123")

\* ---------------------------------------------------------------- actions
\* SerializerParameterField.bind_parameter_field(serializer)
bind_parameter_field(serializer) ==
    /\ clone_meta' = clone_meta \cup {serializer}
    /\ parameter_serializers' =
           IF serializer \in Generic
           THEN Append(parameter_serializers, serializer)
           ELSE parameter_serializers
    /\ last' = Call("bind_parameter_field", None, NoInstance, None,
                    "return", None, "L194")
    /\ UNCHANGED <<config, child, cache, merge_calls, others>>

\* A read of field.specific_serializers, field.specific_serializers_by_type
\* or field.parameters from outside the lookups.
ReadProperty(name) ==
    /\ cache' = Read(name)
    /\ merge_calls' = merge_calls + AccessRuns(cache, name)
    /\ UNCHANGED <<config, parameter_serializers, clone_meta, child, last,
                   others>>

\* The serializers not yet bound: rest_framework binds a field to its parent
\* once, and a generic serializer binds to its sibling parameter field once.
Unbound == Generic \ clone_meta

\* The views a call can meet: get_view_serializer() is a method of the first
\* bound generic serializer, so there is none to meet when none is bound.
Views == IF parameter_serializers = <<>> THEN {None} ELSE ViewSerializers

\* The common end of a call that starts with a read of property name.
Finish(op, name, parameter, instance, view, r) ==
    /\ cache' = Read(name)
    /\ merge_calls' = merge_calls + AccessRuns(cache, name)
    /\ child' = r.child
    /\ last' = Call(op, parameter, instance, view, r.outcome, r.ret, r.exit)
    /\ UNCHANGED <<config, parameter_serializers, clone_meta, others>>

LookupSerializer(parameter, view) ==
    Finish("lookup_serializer", "specific_serializers", parameter, NoInstance,
           view,
           lookup_serializer(Read("specific_serializers").maps,
                             parameter_serializers, child, view, parameter))

\* The first map lookup_parameter reads.
FirstRead(instance) ==
    IF instance.kind = "ReturnDict" THEN "parameters"
    ELSE "specific_serializers_by_type"

LookupParameter(instance, view) ==
    Finish("lookup_parameter", FirstRead(instance), None, instance, view,
           lookup_parameter(Read(FirstRead(instance)).maps,
                            parameter_serializers, child, view, instance))

GetAttribute(instance, view) ==
    LET name == IF instance.attr # Missing THEN "specific_serializers"
                ELSE FirstRead(instance)
    IN Finish("get_attribute", name, None, instance, view,
              get_attribute(Read(name).maps, parameter_serializers, child,
                            view, instance, default, required))

Validate(value, view) ==
    Finish("validate", "specific_serializers", value, NoInstance, view,
           validator_call(Read("specific_serializers").maps,
                          parameter_serializers, child, view, value, skip))

Next ==
    \/ \E s \in Unbound : bind_parameter_field(s)
    \/ \E name \in CachedNames : ReadProperty(name)
    \/ \E p \in Params, v \in Views : LookupSerializer(p, v)
    \/ \E i \in Instances, v \in Views : LookupParameter(i, v)
    \/ \E p \in Params, v \in Views : Validate(p, v)

\* The lookups and the validator of a field declared with the keyword
\* defaults.
Spec == Init /\ [][Next]_vars

\* The validator with either setting of skip.
InitValidator == InitField(BOOLEAN, {<<empty, TRUE>>})

NextValidator ==
    \/ \E s \in Unbound : bind_parameter_field(s)
    \/ \E name \in CachedNames : ReadProperty(name)
    \/ \E p \in Params, v \in Views : Validate(p, v)

SpecValidator == InitValidator /\ [][NextValidator]_vars

\* get_attribute with every accepted default and required.
InitAttribute == InitField({TRUE}, AttributeConfigs)

NextAttribute ==
    \/ \E s \in Unbound : bind_parameter_field(s)
    \/ \E i \in Instances, v \in Views : GetAttribute(i, v)

SpecAttribute == InitAttribute /\ [][NextAttribute]_vars

\* The resolver over every route tree: a field declared with the keyword
\* defaults and no explicit maps, whose maps are read.
InitResolver ==
    /\ urlconf \in RouteTrees(MaxEntries)
    /\ inflectors = default_inflectors
    /\ _specific_serializers = <<>>
    /\ _specific_serializers_by_type = <<>>
    /\ skip = TRUE
    /\ default = empty
    /\ required = TRUE
    /\ parameter_serializers = <<>>
    /\ clone_meta = {}
    /\ child = [g \in Generic |-> None]
    /\ cache = [names |-> {}, maps |-> NoMaps]
    /\ merge_calls = 0
    /\ last = NoCall
    /\ resource = NoResource
    /\ passes = NoPasses
    /\ unhandled = NoUnhandled

NextResolver == \E name \in CachedNames : ReadProperty(name)

SpecResolver == InitResolver /\ [][NextResolver]_vars

\* ------------------------------------------------- get_resource_items
\* The parameter field and everything bound to it.
field ==
    <<config, parameter_serializers, clone_meta, child, cache, merge_calls,
      last>>

\* A field declared with the keyword defaults and no explicit maps, nothing
\* bound to it, nothing called.
FieldAtRest ==
    /\ urlconf = PeopleConf
    /\ inflectors = default_inflectors
    /\ _specific_serializers = <<>>
    /\ _specific_serializers_by_type = <<>>
    /\ skip = TRUE
    /\ default = empty
    /\ required = TRUE
    /\ parameter_serializers = <<>>
    /\ clone_meta = {}
    /\ child = [g \in Generic |-> None]
    /\ cache = [names |-> {}, maps |-> NoMaps]
    /\ merge_calls = 0
    /\ last = NoCall

\* The viewsets get_resource_items may be given: with or without a
\* serializer, a Meta.parameter, a Meta.model and a queryset.
ResourceViews ==
    {ViewSet(s, p, m, q) :
        s \in {"sA1"}, p \in {None, "custom"}, m \in {None, "Article"},
        q \in {None, "Person", "AssertionError"}}
    \cup {ViewSet(None, None, None, q) : q \in {None, "Person"}}

ResourceInstances ==
    {ModelInstance(m) : m \in Models}
    \cup {ViewInstance(c) : c \in ResourceViews \cup {NoClass}}

\* No pattern, the list route of a router, a detail route.
ResourcePatterns ==
    {NoPattern, Given(<<"^", "person", "/", "$">>),
     Given(<<"^", "people", "/", "pk", "/", "$">>)}

ResourceInflectors ==
    {<<>>, default_inflectors, <<"pluralize", "singularize">>,
     <<"singularize", "pluralize">>}

InitResource ==
    /\ FieldAtRest
    /\ \E i \in ResourceInstances, p \in ResourcePatterns,
          f \in ResourceInflectors :
           resource = [instance |-> i, pattern |-> p, inflectors |-> f,
                       called |-> FALSE, items |-> <<None, None, None>>]
    /\ passes = NoPasses
    /\ unhandled = NoUnhandled

GetResourceItems ==
    /\ ~resource.called
    /\ resource' =
           [resource EXCEPT
               !.called = TRUE,
               !.items = get_resource_items(
                             resource.instance, resource.pattern,
                             resource.inflectors)]
    /\ UNCHANGED <<field, passes, unhandled>>

NextResource == GetResourceItems

SpecResource == InitResource /\ [][NextResource]_vars

\* ------------------------- ParameterizedGenericSerializer.to_representation
\* The try statement with AttributeError and KeyError passed over as
\* SkipField is.
to_representation_try_pass(outcome) ==
    CASE outcome \in {"return", "SkipField", "KeyError", "AttributeError",
                      "KeyError:missing", "AttributeError:missing"} ->
             [proceeds |-> TRUE, raised |-> None, nested |-> FALSE]
      [] OTHER ->
             [proceeds |-> FALSE, raised |-> outcome, nested |-> FALSE]

\* What to_representation makes of the end of parameter_field.get_attribute
\* (the try statement): a return and SkipField let the pass go on to the
\* field-by-field representation; AttributeError and KeyError are raised
\* again as the field's 'instance' validation error under the field's name;
\* anything else is caught by no clause and leaves the method as it is.
to_representation_try(outcome) ==
    CASE outcome \in {"return", "SkipField"} ->
             [proceeds |-> TRUE, raised |-> None, nested |-> FALSE]
      [] outcome \in {"KeyError", "AttributeError", "KeyError:missing",
                      "AttributeError:missing"} ->
             [proceeds |-> FALSE, raised |-> "instance", nested |-> TRUE]
      [] OTHER ->
             [proceeds |-> FALSE, raised |-> outcome, nested |-> FALSE]

\* The instances the passes represent: with a registered and with an
\* unregistered parameter of their own, and without one, of a registered and
\* of an unregistered type, and validated data of an unregistered serializer.
PassInstances ==
    {Object("Person", "people"), Object("Person", "articles"),
     Object("Person", Missing), Object("Article", Missing),
     ReturnDict("sB1", Missing)}

\* to_representation up to the call of the base class: the parameter field
\* of clone_meta resolves the instance, which pushes the child of every
\* bound generic serializer; a pass already at its fields has been overlapped
\* by this one.
Resolve(p, g, instance, view) ==
    /\ passes[p].pc # "fields"
    /\ g \in clone_meta
    /\ LET name == IF instance.attr # Missing THEN "specific_serializers"
                   ELSE FirstRead(instance)
           r == get_attribute(Read(name).maps, parameter_serializers, child,
                              view, instance, default, required)
           t == to_representation_try(r.outcome)
       IN /\ cache' = Read(name)
          /\ merge_calls' = merge_calls + AccessRuns(cache, name)
          /\ child' = r.child
          /\ passes' =
                 [q \in PassIds |->
                     IF q = p
                     THEN [pc |-> IF t.proceeds THEN "fields" ELSE "raised",
                           on |-> g, instance |-> instance, view |-> view,
                           outcome |-> r.outcome, raised |-> t.raised,
                           nested |-> t.nested, used |-> None,
                           overlapped |-> FALSE]
                     ELSE IF passes[q].pc = "fields"
                     THEN [passes[q] EXCEPT !.overlapped = TRUE]
                     ELSE passes[q]]
    /\ UNCHANGED <<config, parameter_serializers, clone_meta, last, resource,
                   unhandled>>

\* The call of the base class's to_representation: the fields are
\* represented with the child the generic serializer holds now.
Represent(p) ==
    /\ passes[p].pc = "fields"
    /\ passes' = [passes EXCEPT ![p].pc = "done",
                                ![p].used = child[passes[p].on]]
    /\ UNCHANGED <<field, resource, unhandled>>

\* Passes over one generic serializer bound to a field without a default,
\* required or not.
InitPasses ==
    /\ urlconf = PeopleConf
    /\ inflectors = default_inflectors
    /\ _specific_serializers = <<>>
    /\ _specific_serializers_by_type = <<>>
    /\ skip = TRUE
    /\ default = empty
    /\ required \in BOOLEAN
    /\ parameter_serializers = <<>>
    /\ clone_meta = {}
    /\ child = [g \in Generic |-> None]
    /\ cache = [names |-> {}, maps |-> NoMaps]
    /\ merge_calls = 0
    /\ last = NoCall
    /\ resource = NoResource
    /\ passes = NoPasses
    /\ unhandled = NoUnhandled

NextPasses ==
    \/ "g1" \in Unbound /\ bind_parameter_field("g1")
    \/ \E p \in PassIds, i \in PassInstances, v \in Views :
           Resolve(p, "g1", i, v)
    \/ \E p \in PassIds : Represent(p)

SpecPasses == InitPasses /\ [][NextPasses]_vars

\* --------------------------------------------- SerializerParameterDictField
\* A dict field in its parent: its child is the field of one item, whose own
\* child is the serializer of the item.
DictField(parent, serializer) ==
    [parent |-> parent, child |-> [child |-> serializer]]

\* Dict fields of a root serializer whose items are generic serializers, and
\* one whose items are of a plain serializer.
DictFields ==
    {DictField("root", s) : s \in Generic \cup Plain}

\* The serializer bound with the parent the dict field is bound to, as
\* SerializerParameterField.bind does.
key_serializer_parent(dict_field) == dict_field.parent

\* The serializer SerializerParameterDictField.bind gives to
\* key_child.bind_parameter_field: self.child.child.
key_serializer(dict_field) == dict_field.child.child

\* SerializerParameterDictField.bind
DictFieldBind(dict_field) == bind_parameter_field(key_serializer(dict_field))

\* key_child: a parameter field made with skip=False.
InitDictField == InitField({FALSE}, {<<empty, TRUE>>})

NextDictField ==
    \/ \E d \in DictFields :
           d.child.child \notin clone_meta /\ DictFieldBind(d)
    \/ \E p \in Params, v \in Views : Validate(p, v)

SpecDictField == InitDictField /\ [][NextDictField]_vars

\* ------------------------------------------------------ UnhandledSerializer
\* A Python dict whose values are strings or dicts is kept as two dicts: the
\* items with a string value (flat) and the items with a dict value (nested).
PyDict(flat, nested) == [flat |-> flat, nested |-> nested]

PyKeys(d) == Keys(d.flat) \cup Keys(d.nested)

RECURSIVE Without(_, _)
\* The items of d whose key is not in ks, in order.
Without(d, ks) ==
    IF d = <<>> THEN <<>>
    ELSE IF Head(d)[1] \in ks THEN Without(Tail(d), ks)
    ELSE <<Head(d)>> \o Without(Tail(d), ks)

\* d[k] = v for a string v and for a dict v.
PutFlat(d, k, v) == PyDict(Put(d.flat, k, v), Without(d.nested, {k}))
PutNested(d, k, v) == PyDict(Without(d.flat, {k}), Put(d.nested, k, v))

\* d.update(e)
PyUpdate(d, e) ==
    PyDict(Update(Without(d.flat, Keys(e.nested)), e.flat),
           Update(Without(d.nested, Keys(e.flat)), e.nested))

\* api_settings.NON_FIELD_ERRORS_KEY
NON_FIELD_ERRORS_KEY == "non_field_errors"

\* The most items of the data and of the instances.
MaxItems == 2

\* The declared fields of the serializer, as <<name, source>>, none of them
\* required: the foo of the tests, whose source is qux, and a field whose
\* source is its name.
UnhandledFields ==
    {<<>>, <<(<<"foo", "qux">>)>>, <<(<<"foo", "qux">>), (<<"bar", "bar">>)>>}

\* The source of the child field: the default, or an attribute of its own.
UnhandledSources == {"*", "unhandled"}

FieldNames(fields) == {fields[i][1] : i \in DOMAIN fields}

\* str(key) of DictField on the keys that occur, which are strings.
str(key) == key

RECURSIVE fields_to_internal_value(_, _, _)
\* Serializer.to_internal_value: the value of each field found in the data
\* under its name is set under the field's source.
fields_to_internal_value(acc, fields, data) ==
    IF fields = <<>> THEN acc
    ELSE LET name == Head(fields)[1]
             source == Head(fields)[2]
         IN fields_to_internal_value(
                IF Has(data.flat, name)
                THEN PutFlat(acc, source, Get(data.flat, name)) ELSE acc,
                Tail(fields), data)

RECURSIVE fields_to_representation(_, _, _)
\* Serializer.to_representation: each field whose source the instance has is
\* represented under the field's name.
fields_to_representation(acc, fields, instance) ==
    IF fields = <<>> THEN acc
    ELSE LET name == Head(fields)[1]
             source == Head(fields)[2]
         IN fields_to_representation(
                IF Has(instance.flat, source)
                THEN PutFlat(acc, name, Get(instance.flat, source)) ELSE acc,
                Tail(fields), instance)

\* UnhandledChildField.get_value
get_value(fields, dictionary) ==
    PyDict(Without(dictionary.flat, FieldNames(fields)),
           Without(dictionary.nested, FieldNames(fields)))

\* DictField.to_internal_value and to_representation with the unvalidated
\* child: the keys as strings, the values as they are.
dict_field(d) ==
    PyDict([i \in DOMAIN d.flat |-> <<str(d.flat[i][1]), d.flat[i][2]>>],
           [i \in DOMAIN d.nested |-> <<str(d.nested[i][1]), d.nested[i][2]>>])

\* fields.set_value(dictionary, keys, value) for the keys of a source.
set_value(dictionary, source, value) ==
    IF source = "*" THEN PyUpdate(dictionary, value)
    ELSE PutNested(dictionary, source, value.flat)

Returned(value) ==
    [outcome |-> "return", value |-> value, key |-> None, detail |-> None,
     code |-> None]

\* self.fail(key): a ValidationError with the message of key, its code key.
fail(key) ==
    [outcome |-> "ValidationError", value |-> PyDict(<<>>, <<>>),
     key |-> None, detail |-> key, code |-> key]

\* utils.nest_api_exception around a block that raises exc (code is given).
nest_api_exception(key, code, exc) ==
    [exc EXCEPT !.key = key, !.code = code]

\* to_internal_value with the conflicts taken against the names of the
\* fields found in the data.
to_internal_value_names(fields, source, data) ==
    LET value == fields_to_internal_value(PyDict(<<>>, <<>>), fields, data)
        unhandled_data == get_value(fields, data)
        unhandled_value == dict_field(unhandled_data)
        conflicts == PyKeys(unhandled_value)
                     \cap (FieldNames(fields) \cap PyKeys(data))
    IN IF conflicts # {}
       THEN nest_api_exception(NON_FIELD_ERRORS_KEY, "conflicts",
                               fail("conflicts"))
       ELSE Returned(set_value(value, source, unhandled_value))

\* UnhandledSerializer.to_internal_value
to_internal_value(fields, source, data) ==
    LET value == fields_to_internal_value(PyDict(<<>>, <<>>), fields, data)
        unhandled_data == get_value(fields, data)
        unhandled_value == dict_field(unhandled_data)
        conflicts == PyKeys(unhandled_value) \cap PyKeys(value)
    IN IF conflicts # {}
       THEN nest_api_exception(NON_FIELD_ERRORS_KEY, "conflicts",
                               fail("conflicts"))
       ELSE Returned(set_value(value, source, unhandled_value))

\* self.child.get_attribute(instance): the instance itself for the source
\* "*", else the dict the instance has under the source; skipped (the child
\* is not required) when it has none.
child_get_attribute(source, instance) ==
    IF source = "*" THEN [skipped |-> FALSE, attr |-> instance]
    ELSE IF Has(instance.nested, source)
    THEN [skipped |-> FALSE,
          attr |-> PyDict(Get(instance.nested, source), <<>>)]
    ELSE [skipped |-> TRUE, attr |-> PyDict(<<>>, <<>>)]

\* UnhandledSerializer.to_representation
to_representation(fields, source, instance) ==
    LET data == fields_to_representation(PyDict(<<>>, <<>>), fields, instance)
        unhandled_attr == child_get_attribute(source, instance)
        unhandled_data == dict_field(unhandled_attr.attr)
        conflicts == PyKeys(unhandled_data) \cap PyKeys(data)
    IN IF unhandled_attr.skipped THEN Returned(data)
       ELSE IF conflicts # {}
       THEN nest_api_exception(NON_FIELD_ERRORS_KEY, "conflicts",
                               fail("conflicts"))
       ELSE Returned(PyUpdate(data, unhandled_data))

\* The request data and the flat part of the instances.
UnhandledItems ==
    {d \in DictsUpTo(MaxItems, {"foo", "qux", "bar"}, {"x", "y"}) :
        WellFormedDict(d)}

\* What an instance has under "unhandled": nothing, or a dict.
UnhandledAttrs ==
    {<<>>} \cup {<<(<<"unhandled", d>>)>> :
                    d \in {<<>>, <<(<<"foo", "y">>)>>, <<(<<"baz", "y">>)>>}}

InitUnhandled ==
    /\ FieldAtRest
    /\ resource = NoResource
    /\ passes = NoPasses
    /\ \E f \in UnhandledFields, s \in UnhandledSources :
           \/ \E d \in UnhandledItems :
                  unhandled = [op |-> "to_internal_value", fields |-> f,
                               source |-> s, input |-> PyDict(d, <<>>),
                               called |-> FALSE,
                               result |-> [outcome |-> "none"]]
           \/ \E d \in UnhandledItems, u \in UnhandledAttrs :
                  unhandled = [op |-> "to_representation", fields |-> f,
                               source |-> s, input |-> PyDict(d, u),
                               called |-> FALSE,
                               result |-> [outcome |-> "none"]]

ToInternalValue ==
    /\ unhandled.op = "to_internal_value"
    /\ ~unhandled.called
    /\ unhandled' =
           [unhandled EXCEPT
               !.called = TRUE,
               !.result = to_internal_value(
                              unhandled.fields, unhandled.source,
                              unhandled.input)]
    /\ UNCHANGED <<field, resource, passes>>

ToRepresentation ==
    /\ unhandled.op = "to_representation"
    /\ ~unhandled.called
    /\ unhandled' =
           [unhandled EXCEPT
               !.called = TRUE,
               !.result = to_representation(
                              unhandled.fields, unhandled.source,
                              unhandled.input)]
    /\ UNCHANGED <<field, resource, passes>>

NextUnhandled == ToInternalValue \/ ToRepresentation

SpecUnhandled == InitUnhandled /\ [][NextUnhandled]_vars

\* ----------------------------------------------------------------- claims
\* The merged maps the field holds once a cached property has been read.
merged == cache.maps

\* The maps the resolver finds in the URL configuration.
found_in_urlconf == lookup_serializer_parameters(urlconf, inflectors)

Bound == {parameter_serializers[i] : i \in DOMAIN parameter_serializers}

\* C1: lookup_serializer, called directly or by the validator, fails with
\* the 'unknown' validation error for every parameter that is not a key of
\* the merged specific_serializers, whatever the view's serializer is.
C1_UnknownParameter ==
    (/\ last.op \in {"lookup_serializer", "validate"}
     /\ last.parameter \notin Keys(merged.specific_serializers))
    => last.outcome = "unknown"

\* C1 happens: an unregistered parameter is looked up while the first bound
\* serializer has a view serializer.
C1_Witness ==
    /\ last.op = "lookup_serializer"
    /\ last.parameter \notin Keys(merged.specific_serializers)
    /\ last.view # None
    /\ last.outcome = "unknown"

\* C2: after a successful lookup_serializer the child of every bound generic
\* serializer is the serializer the call returned: the view's serializer
\* when there is one, else the one registered under the parameter.
C2_AllChildrenShareResolved ==
    (last.op = "lookup_serializer" /\ last.outcome = "return")
    => /\ \A g \in Bound : child[g] = last.ret
       /\ last.ret = IF last.view # None THEN last.view
                     ELSE Get(merged.specific_serializers, last.parameter)

\* C2 happens: two generic serializers are bound and the view's serializer,
\* not the registered instance, is pushed.
C2_Witness ==
    /\ last.op = "lookup_serializer"
    /\ last.outcome = "return"
    /\ Cardinality(Bound) = 2
    /\ last.view # None
    /\ last.view # Get(merged.specific_serializers, last.parameter)

\* C3: in both merged maps a key given explicitly holds the explicit
\* serializer, also when the resolver found the key; an entry the resolver
\* found is kept exactly for the keys not given explicitly.
ExplicitWins(m, found, explicit) ==
    /\ Keys(m) = Keys(found) \cup Keys(explicit)
    /\ \A k \in Keys(explicit) : Get(m, k) = Get(explicit, k)
    /\ \A k \in Keys(found) \ Keys(explicit) : Get(m, k) = Get(found, k)

C3_ExplicitOverridesFound ==
    cache.names # {}
    => /\ ExplicitWins(merged.specific_serializers,
                       found_in_urlconf.specific_serializers,
                       _specific_serializers)
       /\ ExplicitWins(merged.specific_serializers_by_type,
                       found_in_urlconf.specific_serializers_by_type,
                       _specific_serializers_by_type)

\* C3 happens: the maps are merged and a parameter found in the URL
\* configuration is also given explicitly, with another serializer.
C3_Witness ==
    /\ cache.names # {}
    /\ \E k \in Keys(_specific_serializers) :
           /\ k \in Keys(found_in_urlconf.specific_serializers)
           /\ Get(_specific_serializers, k) #
                  Get(found_in_urlconf.specific_serializers, k)

\* C4: parameters is the inverse index of specific_serializers: for every
\* parameter p of the merged map, parameters[type(specific_serializers[p])]
\* is p, also when two parameters hold serializers of one class.
C4_InverseIndex ==
    cache.names # {}
    => \A p \in Keys(merged.specific_serializers) :
           LET class == TypeOf(Get(merged.specific_serializers, p))
           IN /\ Has(merged.parameters, class)
              /\ Get(merged.parameters, class) = p

\* C5: with a view serializer and a registered parameter, lookup_serializer
\* returns exactly when the view serializer's class has an entry in
\* parameters and the entry is the requested parameter; it fails with
\* 'serializer' when the class has no entry and with 'mismatch' when the
\* entry is another parameter.
C5_ViewSerializerChecks ==
    (/\ last.op = "lookup_serializer"
     /\ last.view # None
     /\ last.parameter \in Keys(merged.specific_serializers))
    => LET class == TypeOf(last.view)
           entered == class \in Keys(merged.parameters)
           same == entered /\ Get(merged.parameters, class) = last.parameter
       IN /\ last.outcome = "return" <=> same
          /\ ~entered => last.outcome = "serializer"
          /\ entered /\ ~same => last.outcome = "mismatch"

\* C5 happens: a registered parameter is looked up while the view's
\* serializer is registered under another parameter.
C5_Witness ==
    /\ last.op = "lookup_serializer"
    /\ last.view # None
    /\ last.parameter \in Keys(merged.specific_serializers)
    /\ TypeOf(last.view) \in Keys(merged.parameters)
    /\ last.outcome = "mismatch"

\* The serializer lookup_parameter selects for an instance: the one a
\* ReturnDict carries, else the one registered for the instance's type.
IsWrapper(instance) == instance.kind = "ReturnDict"

Selectable(instance) ==
    IF IsWrapper(instance)
    THEN TypeOf(instance.serializer) \in Keys(merged.parameters)
    ELSE instance.model \in Keys(merged.specific_serializers_by_type)

Selected(instance) ==
    IF IsWrapper(instance) THEN instance.serializer
    ELSE Get(merged.specific_serializers_by_type, instance.model)

\* C6: lookup_parameter fails with 'serializer' when a ReturnDict's
\* serializer class is not in parameters, with 'instance' when the type of
\* another instance is not in specific_serializers_by_type, and otherwise
\* returns the parameter that parameters holds for the class of the
\* selected serializer.  Stated for a field with a generic serializer bound
\* (with none bound line 289 has no first serializer to ask for the view's).
C6_LookupParameter ==
    (last.op = "lookup_parameter" /\ Bound # {})
    => IF ~Selectable(last.instance)
       THEN last.outcome = IF IsWrapper(last.instance)
                           THEN "serializer" ELSE "instance"
       ELSE /\ last.outcome = "return"
            /\ TypeOf(Selected(last.instance)) \in Keys(merged.parameters)
            /\ last.ret =
                   Get(merged.parameters, TypeOf(Selected(last.instance)))

MissingErrors == {"KeyError:missing", "AttributeError:missing"}

\* What a failed lookup_serializer raises.
LookupErrors == {"unknown", "serializer", "mismatch", "IndexError"}

\* C8: get_attribute uses the value extracted from the instance whenever the
\* extraction succeeds, and a lookup_serializer failure on it propagates
\* with no fallback.  Only when the extraction raises does it fall back:
\* lookup_parameter(instance) first, whose result stands unless it fails
\* with a validation error; then the default, only if one is configured;
\* then SkipField, only without a default on a field that is not required;
\* the original error only when none of these applies.
C8_AttributePrecedence ==
    last.op = "get_attribute"
    => LET instance == last.instance
           direct == instance.attr # Missing
           fails == ~Selectable(instance)
       IN /\ direct <=> last.exit \in {"L341", "L342"}
          /\ direct /\ last.outcome = "return" => last.ret = instance.attr
          /\ direct /\ last.outcome # "return" => last.outcome \in LookupErrors
          /\ (direct /\ instance.attr \notin Keys(merged.specific_serializers))
             => last.outcome = "unknown"
          /\ ~direct /\ ~fails <=> last.exit = "L310"
          /\ (/\ ~direct
              /\ ~fails
              /\ TypeOf(Selected(instance)) \in Keys(merged.parameters)
              /\ Bound # {})
             => /\ last.outcome = "return"
                /\ last.ret =
                       Get(merged.parameters, TypeOf(Selected(instance)))
          /\ last.exit \in {"L317", "L318"}
             <=> ~direct /\ fails /\ default # empty
          /\ last.exit = "L318" => last.ret = default
          /\ last.exit = "L317" => last.outcome \in LookupErrors
          /\ last.outcome = "SkipField"
             <=> ~direct /\ fails /\ default = empty /\ ~required
          /\ last.outcome \in MissingErrors
             <=> ~direct /\ fails /\ default = empty /\ required

\* C8 happens: the instance's own value is returned although a different
\* default is configured and lookup_parameter would give another parameter.
C8_Witness ==
    /\ last.op = "get_attribute"
    /\ last.instance.attr # Missing
    /\ last.outcome = "return"
    /\ default \notin {empty, last.instance.attr}
    /\ Selectable(last.instance)
    /\ TypeOf(Selected(last.instance)) \in Keys(merged.parameters)
    /\ Get(merged.parameters, TypeOf(Selected(last.instance)))
           # last.instance.attr

\* The plain serializers.Serializer instances get_attribute can make.
EmptySerializers == {s \in {"new1", "new2"} : TypeOf(s) = "Serializer"}

\* C9: when the instance has no value, lookup_parameter fails with a
\* validation error, no default is configured and the field is not
\* required, get_attribute raises SkipField and leaves one and the same
\* empty serializer as the child of every bound generic serializer.
C9_SkipBindsEmpty ==
    (/\ last.op = "get_attribute"
     /\ last.instance.attr = Missing
     /\ ~Selectable(last.instance)
     /\ default = empty
     /\ ~required)
    => /\ last.outcome = "SkipField"
       /\ \E s \in EmptySerializers : \A g \in Bound : child[g] = s

\* C9 happens: the field is skipped while two generic serializers are bound.
C9_Witness ==
    /\ last.op = "get_attribute"
    /\ last.outcome = "SkipField"
    /\ Cardinality(Bound) = 2
    /\ \A g \in Bound : child[g] \in EmptySerializers

\* Whether lookup_serializer resolves the last call's parameter, and to what.
Resolves ==
    /\ last.parameter \in Keys(merged.specific_serializers)
    /\ Bound # {}
    /\ last.view # None
       => /\ TypeOf(last.view) \in Keys(merged.parameters)
          /\ Get(merged.parameters, TypeOf(last.view)) = last.parameter

Resolved ==
    IF last.view # None THEN last.view
    ELSE Get(merged.specific_serializers, last.parameter)

\* C10: the validator looks the value up before it decides to skip: a
\* failed lookup propagates and nothing is skipped; after a successful
\* lookup (the children are pushed) it raises SkipField when skip is set and
\* returns the value unchanged when it is not.
C10_ValidatorLooksUpFirst ==
    last.op = "validate"
    => /\ ~Resolves => last.outcome \in LookupErrors
       /\ Resolves => \A g \in Bound : child[g] = Resolved
       /\ Resolves /\ skip => last.outcome = "SkipField"
       /\ Resolves /\ ~skip
          => last.outcome = "return" /\ last.ret = last.parameter

\* C10 happens: skip is set and the lookup of the value fails, so the error
\* is raised instead of SkipField.
C10_Witness ==
    /\ last.op = "validate"
    /\ skip
    /\ Bound # {}
    /\ last.outcome \in ValidationErrors

RECURSIVE Traversal(_)
RECURSIVE TraversalOfAll(_)
\* The route entries in the order the resolver visits them: an entry, then
\* the entries nested in it, in list order.
Traversal(pattern) == <<pattern>> \o TraversalOfAll(pattern.url_patterns)
TraversalOfAll(url_patterns) ==
    IF url_patterns = <<>> THEN <<>>
    ELSE Traversal(Head(url_patterns)) \o TraversalOfAll(Tail(url_patterns))

\* The places in the traversal whose own callback gives key in the map name.
Discoveries(name, key) ==
    LET visited == Traversal(urlconf)
    IN {i \in DOMAIN visited : Has(OwnMaps(visited[i], inflectors)[name], key)}

FirstDiscovery(name, key) ==
    CHOOSE i \in Discoveries(name, key) :
        \A j \in Discoveries(name, key) : i <= j

DiscoveredAt(name, key, i) ==
    Get(OwnMaps(Traversal(urlconf)[i], inflectors)[name], key)

\* C11: once the maps are resolved with no explicit maps given, a parameter
\* is in specific_serializers, and a model in specific_serializers_by_type,
\* exactly when some route entry gives it, and its serializer is the one of
\* the entry visited first: a later entry never overwrites an earlier one.
C11_FirstVisitedWins ==
    cache.names # {} =>
        /\ \A p \in Params \cup Keys(merged.specific_serializers) :
               /\ Has(merged.specific_serializers, p)
                      <=> Discoveries("specific_serializers", p) # {}
               /\ Has(merged.specific_serializers, p) =>
                      Get(merged.specific_serializers, p) =
                          DiscoveredAt("specific_serializers", p,
                              FirstDiscovery("specific_serializers", p))
        /\ \A t \in Models \cup Keys(merged.specific_serializers_by_type) :
               /\ Has(merged.specific_serializers_by_type, t)
                      <=> Discoveries("specific_serializers_by_type", t) # {}
               /\ Has(merged.specific_serializers_by_type, t) =>
                      Get(merged.specific_serializers_by_type, t) =
                          DiscoveredAt("specific_serializers_by_type", t,
                              FirstDiscovery("specific_serializers_by_type", t))

\* The maps are resolved from a tree in which "people" is given by a nested
\* entry and again, with another serializer, by an entry visited later.
C11_Witness ==
    /\ cache.names # {}
    /\ \E i, j \in Discoveries("specific_serializers", "people") :
           /\ 1 < i
           /\ i < j
           /\ DiscoveredAt("specific_serializers", "people", i)
                  # DiscoveredAt("specific_serializers", "people", j)

\* What the arguments of the call say: the Meta.parameter of the serializer,
\* the model of the instance.
MetaParameter ==
    LET cls == resource.instance.view
    IN IF ~resource.instance.is_model /\ cls.has_get_serializer
          /\ cls.serializer # None
       THEN cls.meta_parameter ELSE None

KnownModel == resource.items[2]

\* C12: get_resource_items returns as parameter the serializer's
\* Meta.parameter as it is when there is one; else the inflected capture of
\* the pattern when the pattern matches; else, whenever a model is known,
\* also with a pattern that does not match, the inflected verbose name of
\* the model; the inflectors are applied in order.
C12_ParameterPriority ==
    resource.called =>
        resource.items[1] =
            IF MetaParameter # None THEN MetaParameter
            ELSE IF resource.pattern.given
                    /\ url_match_group(resource.pattern.regex) # None
            THEN Inflect(resource.inflectors,
                         url_match_group(resource.pattern.regex))
            ELSE IF KnownModel # None
            THEN Inflect(resource.inflectors, verbose_name(KnownModel))
            ELSE None

\* C13: merge_serializer_parameters runs once per field, at the first read
\* of any of the three cached properties, whichever it is: it has run
\* exactly once as soon as a property is cached, and from then on no step
\* runs it again or changes the cached maps.
C13_MergeRunsOnce ==
    [][/\ merge_calls' = (IF cache'.names = {} THEN 0 ELSE 1)
       /\ cache.names = {} /\ cache'.names # {} =>
              cache'.maps = merge_serializer_parameters(
                                urlconf, inflectors, _specific_serializers,
                                _specific_serializers_by_type)
       /\ cache.names # {} => cache'.maps = cache.maps]_vars

\* A lookup has failed after an earlier one had pushed a child: the maps
\* have been read by more than one call, and merged once.
C13_Witness ==
    /\ merge_calls = 1
    /\ last.op = "lookup_serializer"
    /\ last.outcome = "unknown"
    /\ \E g \in Bound : child[g] # None

\* C14: in ParameterizedGenericSerializer.to_representation every failure of
\* the parameter field's get_attribute, the 'unknown', 'mismatch' and
\* 'serializer' errors of lookup_serializer among them, reaches the caller as
\* a validation error nested under the parameter field's name.
C14_FailuresNested ==
    \A p \in PassIds :
        passes[p].pc = "raised" =>
            /\ passes[p].raised \in ValidationErrors
            /\ passes[p].nested

\* Whether the child a finished pass used is the one its own instance
\* resolves to: an empty serializer when the field was skipped, else the
\* view's serializer when there is one, else the serializer registered for
\* the instance's own parameter, or selected by the instance when it has none.
UsedOwnSchema(pass) ==
    /\ pass.outcome \in {"return", "SkipField"}
    /\ pass.outcome = "SkipField" => pass.used \in EmptySerializers
    /\ pass.outcome = "return" =>
           pass.used =
               IF pass.view # None THEN pass.view
               ELSE IF pass.instance.attr # Missing
               THEN Get(merged.specific_serializers, pass.instance.attr)
               ELSE Selected(pass.instance)

\* C15: a to_representation pass that no other pass has overlapped between
\* its resolution and its field-by-field representation represents its
\* fields with the child resolved from its own instance (an empty serializer
\* when the field is skipped), never with the child an earlier pass left;
\* a pass overlapped by another on the same serializer can use the other's.
C15_PassUsesOwnSchema ==
    \A p \in PassIds :
        passes[p].pc = "done" /\ ~passes[p].overlapped =>
            UsedOwnSchema(passes[p])

\* Two passes have interleaved on g1: the one that resolved last used its
\* own child, which is not what the first had resolved, and the first then
\* represented its fields with the child of the other.
C15_Witness ==
    \E p, q \in PassIds :
        /\ passes[p].pc = "done"
        /\ passes[q].pc = "done"
        /\ passes[p].overlapped
        /\ ~passes[q].overlapped
        /\ UsedOwnSchema(passes[q])
        /\ ~UsedOwnSchema(passes[p])
        /\ passes[p].used = passes[q].used

\* C16: lookup_serializer and lookup_parameter end in a return or in one of
\* the field's four validation errors ('unknown', 'serializer', 'mismatch',
\* 'instance'), whatever the merged maps hold and however many generic
\* serializers are bound, none included: no KeyError or IndexError escapes.
C16_OnlyValidationErrors ==
    last.op \in {"lookup_serializer", "lookup_parameter"} =>
        last.outcome \in {"return"} \cup ValidationErrors

\* The keys the child field captures from the input of the call, and the
\* keys the declared fields produce from it: their sources for the fields
\* found by name in the data, their names for the fields whose source the
\* instance has.
Captured ==
    IF unhandled.op = "to_internal_value"
    THEN PyKeys(unhandled.input) \ FieldNames(unhandled.fields)
    ELSE IF unhandled.source = "*" THEN PyKeys(unhandled.input)
    ELSE IF Has(unhandled.input.nested, unhandled.source)
    THEN Keys(Get(unhandled.input.nested, unhandled.source))
    ELSE {}

Produced ==
    LET fs == unhandled.fields
    IN IF unhandled.op = "to_internal_value"
       THEN {fs[i][2] : i \in {j \in DOMAIN fs :
                                  fs[j][1] \in Keys(unhandled.input.flat)}}
       ELSE {fs[i][1] : i \in {j \in DOMAIN fs :
                                  fs[j][2] \in Keys(unhandled.input.flat)}}

\* The captured items as the input has them.
CapturedFrom ==
    IF unhandled.op = "to_representation" /\ unhandled.source # "*"
    THEN PyDict(Get(unhandled.input.nested, unhandled.source), <<>>)
    ELSE unhandled.input

\* Every captured item is in the result: under its own key, or all together
\* under the source of the child field.
CapturedAdded ==
    LET value == unhandled.result.value
    IN IF unhandled.op = "to_internal_value" /\ unhandled.source # "*"
       THEN /\ Has(value.nested, unhandled.source)
            /\ LET collected == Get(value.nested, unhandled.source)
               IN /\ Keys(collected) = Captured
                  /\ \A k \in Captured :
                         Get(collected, k) = Get(unhandled.input.flat, k)
       ELSE \A k \in Captured :
                IF Has(CapturedFrom.flat, k)
                THEN /\ Has(value.flat, k)
                     /\ Get(value.flat, k) = Get(CapturedFrom.flat, k)
                ELSE /\ Has(value.nested, k)
                     /\ Get(value.nested, k) = Get(CapturedFrom.nested, k)

\* C17: an UnhandledSerializer fails with the 'conflicts' validation error,
\* nested under the non-field-errors key, whenever a captured key is also a
\* key the declared fields produce (a source in to_internal_value, a name in
\* to_representation), and then returns nothing merged; when there is no
\* such key it returns with every captured item added.
C17_ConflictsNested ==
    unhandled.called =>
        IF Captured \cap Produced # {}
        THEN /\ unhandled.result.outcome = "ValidationError"
             /\ unhandled.result.key = NON_FIELD_ERRORS_KEY
             /\ unhandled.result.detail = "conflicts"
             /\ unhandled.result.code = "conflicts"
             /\ PyKeys(unhandled.result.value) = {}
        ELSE /\ unhandled.result.outcome = "return"
             /\ Produced \subseteq PyKeys(unhandled.result.value)
             /\ CapturedAdded

\* The data of the test: foo goes to the source qux, and qux is sent too.
C17_Witness ==
    /\ unhandled.called
    /\ unhandled.op = "to_internal_value"
    /\ {"foo", "qux"} \subseteq Keys(unhandled.input.flat)
    /\ "qux" \in Captured \cap Produced
    /\ unhandled.result.outcome = "ValidationError"

\* C18: SerializerParameterDictField.bind records its key field as the
\* parameter field of the serializer of its items, the child of its child,
\* and of nothing else, and puts that serializer on the key field's list of
\* bound serializers when it is a generic one; a key that resolves is then
\* pushed as the child of every such serializer, and the key field, made
\* with skip=False, has its validator return the key.
C18_DictFieldBindsGrandchild ==
    /\ [](/\ ~skip
          /\ clone_meta \subseteq {d.child.child : d \in DictFields}
          /\ Bound = clone_meta \cap Generic
          /\ last.op = "validate" =>
                 /\ last.outcome # "SkipField"
                 /\ Resolves =>
                        /\ last.outcome = "return"
                        /\ last.ret = last.parameter
                        /\ \A g \in clone_meta \cap Generic :
                               child[g] = Resolved)
    /\ [][last'.op = "bind_parameter_field" /\ clone_meta' # clone_meta =>
              \E d \in DictFields :
                  /\ clone_meta' = clone_meta \cup {d.child.child}
                  /\ parameter_serializers' =
                         IF d.child.child \in Generic
                         THEN Append(parameter_serializers, d.child.child)
                         ELSE parameter_serializers]_vars

\* Dict fields of generic and of plain items are bound, and a key has been
\* resolved: the validator returned it and the generic ones hold its
\* serializer.
C18_Witness ==
    /\ clone_meta = Generic \cup Plain
    /\ last.op = "validate"
    /\ last.outcome = "return"
    /\ last.ret = last.parameter
    /\ \A g \in Generic : child[g] = Resolved

\* C19: a call of lookup_serializer or lookup_parameter that raises one of
\* the validation errors leaves the child of every generic serializer, the
\* list of bound serializers and the three merged maps as they were before
\* the call: the maps are those the properties gave, or would have given,
\* before it.
C19_FailedLookupChangesNothing ==
    [][(/\ last'.op \in {"lookup_serializer", "lookup_parameter"}
        /\ last'.outcome \in ValidationErrors)
       => /\ child' = child
          /\ parameter_serializers' = parameter_serializers
          /\ clone_meta' = clone_meta
          /\ cache'.names # {}
          /\ cache'.maps = Read("parameters").maps
          /\ _specific_serializers' = _specific_serializers
          /\ _specific_serializers_by_type' = _specific_serializers_by_type]_vars

\* A lookup has failed on the view's serializer while two generic serializers
\* are bound and hold the child an earlier lookup pushed.
C19_Witness ==
    /\ last.op = "lookup_serializer"
    /\ last.outcome \in {"serializer", "mismatch"}
    /\ Cardinality(Bound) = 2
    /\ \A g \in Bound : child[g] \notin {None, last.view}

====
